---- MODULE Spec2Model ----
(***************************************************************************)
(* A state-machine model of the YaMDb review API (api_yamdb): the catalog  *)
(* (categories, genres, titles), reviews and comments with their storage   *)
(* constraints, the read-time rating aggregation, and the signup /         *)
(* confirmation-code / token flow.                                          *)
(*                                                                         *)
(* The specifications share the variables; each one runs a part of the    *)
(* handlers from a state the service can be in:                            *)
(*   Spec         review handlers and the title read, one step per request *)
(*   SpecCascade  reviews, comments and the deletion of their parents      *)
(*   SpecCatalog  category, genre and title handlers                       *)
(*   SpecRace     review POSTs split into a "validated" and a "saved"      *)
(*                step, so that two requests can interleave                *)
(*   SpecAuth     signup, token and the admin user endpoint                *)
(***************************************************************************)
EXTENDS Integers, Sequences, FiniteSets, TLC

VARIABLES
    users,          \* pk -> User row
    nextUserId,     \* next auto-increment pk of User
    categories,     \* set of Category rows [name, slug]
    genres,         \* set of Genre rows [name, slug]
    titles,         \* pk -> Title row [name, year, category, genre]
    nextTitleId,
    reviews,        \* pk -> Review row [title, author, score, text]
    nextReviewId,
    comments,       \* pk -> Comment row [review, author, text]
    nextCommentId,
    inflight,       \* slot -> review POST that passed is_valid() and has not saved yet
    now,            \* clock, in the seconds the token generator reads
    last            \* the request handled by the latest step and its response

vars == <<users, nextUserId, categories, genres, titles, nextTitleId,
          reviews, nextReviewId, comments, nextCommentId, inflight, now, last>>

(***************************************************************************)
(* Bounds of the model.                                                    *)
(***************************************************************************)
MaxTitles == 2
MaxReviews == 2
MaxComments == 2
MaxInFlight == 2
MaxUsers == 6
MaxTime == 1

(***************************************************************************)
(* Values.                                                                 *)
(***************************************************************************)
None == <<>>
Some(x) == <<x>>

Anonymous == 0

MIN_SCORE == 1
MAX_SCORE == 10
CurrentYear == 2026

SAFE_METHODS == {"GET", "HEAD", "OPTIONS"}

\* request inputs
ScoreInputs == {0, 1, 10, 11}
TextInputs == {"txt"}
YearInputs == {2023, 2027}
TitleNames == {"Dune"}
CategoryNames == {"Films", "Books"}
CategorySlugs == {"films", "books"}
GenreNames == {"Drama"}
GenreSlugs == {"drama"}

Restrict(f, S) == [x \in S |-> f[x]]

RECURSIVE SumOver(_, _)
SumOver(f, S) ==
    IF S = {} THEN 0
    ELSE LET x == CHOOSE y \in S : TRUE
         IN f[x] + SumOver(f, S \ {x})

(***************************************************************************)
(* Responses.  `last` keeps the request line (operation and URL arguments) *)
(* of the latest request and the response to it: the status, the key an    *)
(* error is reported under, the rating of a title read, the access token   *)
(* of a token response, and what became of the mail the request sent.      *)
(* A check yields "" when it passes and the error key when it fails.       *)
(***************************************************************************)
OK == ""

ErrorStatus(err) ==
    IF err = "not_authenticated" THEN 401
    ELSE IF err = "permission_denied" THEN 403
    ELSE IF err = "not_found" THEN 404
    ELSE IF err = "method_not_allowed" THEN 405
    ELSE IF err = "server_error" THEN 500
    ELSE 400

Respond(op, key, err, ok) ==
    [op |-> op, key |-> key,
     status |-> IF err = OK THEN ok ELSE ErrorStatus(err),
     detail |-> err, rating |-> None, token |-> None, mail |-> "none"]

(***************************************************************************)
(* users/models.py                                                         *)
(***************************************************************************)
\* (variant) is_admin that looks at the role only
is_admin_RoleOnly(u) == u.role = "admin"

is_admin(u) == u.role = "admin" \/ u.is_superuser
is_moderator(u) == u.role = "moderator"

is_authenticated(req) == req # Anonymous

(***************************************************************************)
(* users/permissions.py and the framework permission of the review views   *)
(***************************************************************************)
\* (variant) the user endpoints need a login only
IsAdmin_AnyLogin(req) ==
    is_authenticated(req)

IsAdmin(req) ==
    is_authenticated(req) /\ is_admin(users[req])

\* (variant) a write needs a login only
IsAdminOrReadOnly_AnyLogin(method, req) ==
    \/ method \in SAFE_METHODS
    \/ is_authenticated(req)

IsAdminOrReadOnly(method, req) ==
    \/ method \in SAFE_METHODS
    \/ is_authenticated(req) /\ is_admin(users[req])

IsAuthenticatedOrReadOnly(method, req) ==
    \/ method \in SAFE_METHODS
    \/ is_authenticated(req)

\* (variant) the object check asks for a login only
IsAdminModeratorOwnerOrReadOnly_AnyLogin(method, req, obj) ==
    \/ method \in SAFE_METHODS
    \/ is_authenticated(req)

IsAdminModeratorOwnerOrReadOnly(method, req, obj) ==
    \/ method \in SAFE_METHODS
    \/ /\ is_authenticated(req)
       /\ \/ is_admin(users[req])
          \/ is_moderator(users[req])
          \/ obj.author = req

\* a refused permission: 401 without credentials, else 403
permission_denied(req) ==
    IF is_authenticated(req) THEN "permission_denied" ELSE "not_authenticated"

(***************************************************************************)
(* reviews/models.py: storage rules                                        *)
(***************************************************************************)
ReviewsOfTitle(revs, t) == {r \in DOMAIN revs : revs[r].title = t}
CommentsOfReviews(coms, R) == {c \in DOMAIN coms : coms[c].review \in R}

\* (variant) a lower bound of 0, as the serializer's docstring words it
ScoreField_FromZero(value) == value >= 0 /\ value <= MAX_SCORE

\* Review.score validators
ScoreField(value) == value >= MIN_SCORE /\ value <= MAX_SCORE

\* (variant) a Review table without the unique constraint
UniqueReview_NotEnforced(revs, t, a) == TRUE

\* Review.Meta.constraints: UniqueConstraint(fields=('title', 'author'))
UniqueReview(revs, t, a) ==
    ~ \E r \in DOMAIN revs : revs[r].title = t /\ revs[r].author = a

\* Review.title on_delete=CASCADE
CascadeTitleReviews(t) ==
    Restrict(reviews, DOMAIN reviews \ ReviewsOfTitle(reviews, t))

\* (variant) comments that stay when their review goes
CascadeComments_Keep(gone) == comments

\* Comment.review on_delete=CASCADE: the comments of the reviews in `gone`
CascadeComments(gone) ==
    Restrict(comments, DOMAIN comments \ CommentsOfReviews(comments, gone))

\* (variant) on_delete=CASCADE: the titles of the category go with it
SetNullCategory_Cascade(slug) ==
    Restrict(titles, {t \in DOMAIN titles : titles[t].category # Some(slug)})

\* Title.category on_delete=SET_NULL
SetNullCategory(slug) ==
    [t \in DOMAIN titles |->
        IF titles[t].category = Some(slug)
        THEN [titles[t] EXCEPT !.category = None]
        ELSE titles[t]]

\* the Title-Genre link rows go with the Genre
DropGenre(slug) ==
    [t \in DOMAIN titles |-> [titles[t] EXCEPT !.genre = @ \ {slug}]]

\* reviews/validators.py
validate_year(value) == ~(value > CurrentYear)

(***************************************************************************)
(* reviews/serializers.py                                                  *)
(***************************************************************************)
\* ReviewSerializer.validate_score: "if 0 > value > 10: raise"
validate_score(value) == ~(0 > value /\ value > 10)

\* (variant) validate without the lookup of an existing review
ReviewSerializer_validate_NoLookup(method, author, title_id) ==
    IF title_id \notin DOMAIN titles THEN "not_found" ELSE OK

\* ReviewSerializer.validate
ReviewSerializer_validate(method, author, title_id) ==
    IF title_id \notin DOMAIN titles THEN "not_found"
    ELSE IF method = "POST"
            /\ \E r \in DOMAIN reviews :
                  reviews[r].title = title_id /\ reviews[r].author = author
         THEN "non_field_errors"
         ELSE OK

\* ReviewSerializer.is_valid for data that carries a score: the field's
\* validators, validate_score, then validate
ReviewSerializer_is_valid(method, author, title_id, score) ==
    IF ~ScoreField(score) THEN "score"
    ELSE IF ~validate_score(score) THEN "score"
    ELSE ReviewSerializer_validate(method, author, title_id)

\* (variant) an average over the whole Review table, without the join
Avg_AllReviews(t) ==
    LET R == DOMAIN reviews
    IN IF R = {} THEN None
       ELSE Some([sum |-> SumOver([r \in R |-> reviews[r].score], R),
                  count |-> Cardinality(R)])

\* Avg('reviews__score'): None without rows, else the exact quotient sum/count
Avg(t) ==
    LET R == ReviewsOfTitle(reviews, t)
    IN IF R = {} THEN None
       ELSE Some([sum |-> SumOver([r \in R |-> reviews[r].score], R),
                  count |-> Cardinality(R)])

\* (variant) a rating rounded to the nearest integer, halves upwards
IntegerField_to_representation_Rounded(value) ==
    IF value = None THEN None
    ELSE LET q == value[1]
         IN Some((2 * q.sum + q.count) \div (2 * q.count))

\* TitleReadSerializer.rating = IntegerField(read_only=True): int(value),
\* which drops the fraction
IntegerField_to_representation(value) ==
    IF value = None THEN None
    ELSE LET q == value[1]
         IN IF q.sum >= 0 THEN Some(q.sum \div q.count)
            ELSE Some(-((-q.sum) \div q.count))

reviewVars == <<reviews, nextReviewId, comments, nextCommentId>>
catalogVars == <<categories, genres, titles, nextTitleId>>
userVars == <<users, nextUserId, now>>

(***************************************************************************)
(* api/views.py: ReviewViewSet                                             *)
(***************************************************************************)
\* get_title: get_object_or_404(Title, id=title_id)
get_title(title_id) == title_id \in DOMAIN titles

\* perform_create: get_title, then serializer.save(author=..., title=...);
\* an INSERT the unique constraint refuses raises IntegrityError (500)
perform_create(req, t) ==
    IF ~get_title(t) THEN "not_found"
    ELSE IF ~UniqueReview(reviews, t, req) THEN "server_error"
    ELSE OK

\* a POST before perform_create: permissions, then serializer.is_valid
ReviewCreateChecks(req, t, score) ==
    IF ~IsAuthenticatedOrReadOnly("POST", req) THEN permission_denied(req)
    ELSE ReviewSerializer_is_valid("POST", req, t, score)

SaveReview(op, req, t, score, text) ==
    LET err == perform_create(req, t)
    IN /\ IF err = OK
          THEN /\ nextReviewId <= MaxReviews
               /\ reviews' = (nextReviewId :> [title |-> t, author |-> req,
                                              score |-> score, text |-> text,
                                              pub_date |-> now])
                             @@ reviews
               /\ nextReviewId' = nextReviewId + 1
          ELSE UNCHANGED <<reviews, nextReviewId>>
       /\ last' = Respond(op, <<t>>, err, 201)

\* POST /titles/{title_id}/reviews/
ReviewCreate(req, t, score, text) ==
    LET err == ReviewCreateChecks(req, t, score)
    IN /\ IF err # OK
          THEN /\ UNCHANGED <<reviews, nextReviewId>>
               /\ last' = Respond("review_post", <<t>>, err, 201)
          ELSE SaveReview("review_post", req, t, score, text)
       /\ UNCHANGED <<comments, nextCommentId, inflight>>
       /\ UNCHANGED catalogVars
       /\ UNCHANGED userVars

\* a detail route: permissions, get_object over the title's reviews, object
\* permissions
ReviewObjectChecks(method, req, t, id) ==
    IF ~IsAuthenticatedOrReadOnly(method, req) THEN permission_denied(req)
    ELSE IF ~get_title(t) THEN "not_found"
    ELSE IF id \notin ReviewsOfTitle(reviews, t) THEN "not_found"
    ELSE IF ~IsAdminModeratorOwnerOrReadOnly(method, req, reviews[id])
         THEN permission_denied(req)
    ELSE OK

\* a PATCH before the save: the detail-route checks, then serializer.is_valid
\* of the partial data (a field left out is None)
ReviewPatchChecks(req, t, id, score) ==
    LET err == ReviewObjectChecks("PATCH", req, t, id)
    IN IF err # OK THEN err
       ELSE IF score # None
            THEN ReviewSerializer_is_valid("PATCH", req, t, score[1])
            ELSE ReviewSerializer_validate("PATCH", req, t)

\* PATCH /titles/{title_id}/reviews/{id}/
ReviewPatch(req, t, id, score, text) ==
    LET err == ReviewPatchChecks(req, t, id, score)
    IN /\ IF err # OK
          THEN UNCHANGED reviews
          ELSE reviews' = [reviews EXCEPT
                    ![id].score = IF score # None THEN score[1] ELSE @,
                    ![id].text = IF text # None THEN text[1] ELSE @]
       /\ last' = Respond("review_patch", <<t, id>>, err, 200)
       /\ UNCHANGED <<nextReviewId, comments, nextCommentId, inflight>>
       /\ UNCHANGED catalogVars
       /\ UNCHANGED userVars

\* (variant) ReviewSerializer whose author field takes input
ReviewSerializer_read_only_AuthorWritable == {"title", "pub_date"}

\* ReviewSerializer: title and author are declared read_only, pub_date is
\* auto_now_add and so not editable; input for a read-only field is ignored
ReviewSerializer_read_only == {"title", "author", "pub_date"}

\* serializer.save() of a PATCH: the writable fields of the body are set
ReviewSerializer_update(row, body) ==
    [f \in DOMAIN row |->
        IF f \in DOMAIN body /\ f \notin ReviewSerializer_read_only
        THEN body[f] ELSE row[f]]

\* PATCH /titles/{title_id}/reviews/{id}/ with any fields in the body
ReviewPatchBody(req, t, id, body) ==
    LET err == ReviewPatchChecks(req, t, id,
                                 IF "score" \in DOMAIN body
                                 THEN Some(body.score) ELSE None)
    IN /\ IF err # OK
          THEN UNCHANGED reviews
          ELSE reviews' = [reviews EXCEPT
                              ![id] = ReviewSerializer_update(@, body)]
       /\ last' = Respond("review_patch", <<t, id>>, err, 200)
       /\ UNCHANGED <<nextReviewId, comments, nextCommentId, inflight>>
       /\ UNCHANGED catalogVars
       /\ UNCHANGED userVars

\* DELETE /titles/{title_id}/reviews/{id}/
ReviewDelete(req, t, id) ==
    LET err == ReviewObjectChecks("DELETE", req, t, id)
    IN /\ IF err # OK
          THEN UNCHANGED <<reviews, comments>>
          ELSE /\ reviews' = Restrict(reviews, DOMAIN reviews \ {id})
               /\ comments' = CascadeComments({id})
       /\ last' = Respond("review_delete", <<t, id>>, err, 204)
       /\ UNCHANGED <<nextReviewId, nextCommentId, inflight>>
       /\ UNCHANGED catalogVars
       /\ UNCHANGED userVars

\* GET /titles/{title_id}/reviews/{id}/ and, with id None, the list
ReviewRead(req, t, id) ==
    LET err == IF id = None
               THEN IF ~IsAuthenticatedOrReadOnly("GET", req)
                    THEN permission_denied(req)
                    ELSE IF ~get_title(t) THEN "not_found" ELSE OK
               ELSE ReviewObjectChecks("GET", req, t, id[1])
    IN /\ last' = Respond(IF id = None THEN "review_list" ELSE "review_get",
                          <<t>> \o id, err, 200)
       /\ UNCHANGED <<inflight>>
       /\ UNCHANGED reviewVars
       /\ UNCHANGED catalogVars
       /\ UNCHANGED userVars

(***************************************************************************)
(* api/views.py: CommentViewSet                                            *)
(***************************************************************************)
\* get_review: get_object_or_404(Review, id=review_id, title_id=title_id)
\* (variant) a review looked up by its id alone
get_review_AnyTitle(t, r) == r \in DOMAIN reviews

get_review(t, r) == r \in DOMAIN reviews /\ reviews[r].title = t

\* POST /titles/{title_id}/reviews/{review_id}/comments/
CommentCreate(req, t, r, text) ==
    LET err == IF ~IsAuthenticatedOrReadOnly("POST", req)
               THEN permission_denied(req)
               ELSE IF ~get_review(t, r) THEN "not_found"
               ELSE OK
    IN /\ IF err # OK
          THEN UNCHANGED <<comments, nextCommentId>>
          ELSE /\ nextCommentId <= MaxComments
               /\ comments' = (nextCommentId :> [review |-> r, author |-> req,
                                                text |-> text]) @@ comments
               /\ nextCommentId' = nextCommentId + 1
       /\ last' = Respond("comment_post", <<t, r>>, err, 201)
       /\ UNCHANGED <<reviews, nextReviewId, inflight>>
       /\ UNCHANGED catalogVars
       /\ UNCHANGED userVars

CommentObjectChecks(method, req, t, r, id) ==
    IF ~IsAuthenticatedOrReadOnly(method, req) THEN permission_denied(req)
    ELSE IF ~get_review(t, r) THEN "not_found"
    ELSE IF id \notin CommentsOfReviews(comments, {r}) THEN "not_found"
    ELSE IF ~IsAdminModeratorOwnerOrReadOnly(method, req, comments[id])
         THEN permission_denied(req)
    ELSE OK

\* DELETE /titles/{title_id}/reviews/{review_id}/comments/{id}/
CommentDelete(req, t, r, id) ==
    LET err == CommentObjectChecks("DELETE", req, t, r, id)
    IN /\ IF err # OK
          THEN UNCHANGED comments
          ELSE comments' = Restrict(comments, DOMAIN comments \ {id})
       /\ last' = Respond("comment_delete", <<t, r, id>>, err, 204)
       /\ UNCHANGED <<reviews, nextReviewId, nextCommentId, inflight>>
       /\ UNCHANGED catalogVars
       /\ UNCHANGED userVars

\* PATCH /titles/{title_id}/reviews/{review_id}/comments/{id}/
CommentPatch(req, t, r, id, text) ==
    LET err == CommentObjectChecks("PATCH", req, t, r, id)
    IN /\ IF err # OK
          THEN UNCHANGED comments
          ELSE comments' = [comments EXCEPT
                    ![id].text = IF text # None THEN text[1] ELSE @]
       /\ last' = Respond("comment_patch", <<t, r, id>>, err, 200)
       /\ UNCHANGED <<reviews, nextReviewId, nextCommentId, inflight>>
       /\ UNCHANGED catalogVars
       /\ UNCHANGED userVars

\* GET /titles/{title_id}/reviews/{review_id}/comments/{id}/ and, with id
\* None, the list
CommentRead(req, t, r, id) ==
    LET err == IF id = None
               THEN IF ~IsAuthenticatedOrReadOnly("GET", req)
                    THEN permission_denied(req)
                    ELSE IF ~get_review(t, r) THEN "not_found" ELSE OK
               ELSE CommentObjectChecks("GET", req, t, r, id[1])
    IN /\ last' = Respond(IF id = None THEN "comment_list" ELSE "comment_get",
                          <<t, r>> \o id, err, 200)
       /\ UNCHANGED <<inflight>>
       /\ UNCHANGED reviewVars
       /\ UNCHANGED catalogVars
       /\ UNCHANGED userVars

(***************************************************************************)
(* api/views.py: TitleViewSet, CategoryViewSet, GenreViewSet               *)
(***************************************************************************)
\* GET /titles/{id}/ : the row annotated with rating=Avg('reviews__score'),
\* rendered by TitleReadSerializer
TitleRetrieve(req, t) ==
    /\ IF ~IsAdminOrReadOnly("GET", req)
       THEN last' = Respond("title_get", <<t>>, permission_denied(req), 200)
       ELSE IF t \notin DOMAIN titles
       THEN last' = Respond("title_get", <<t>>, "not_found", 200)
       ELSE last' = [Respond("title_get", <<t>>, OK, 200) EXCEPT
                        !.rating = IntegerField_to_representation(Avg(t))]
    /\ UNCHANGED <<inflight>>
    /\ UNCHANGED reviewVars
    /\ UNCHANGED catalogVars
    /\ UNCHANGED userVars

\* TitleWriteSerializer: year validator, category and genre looked up by slug
TitleWriteSerializer_is_valid(year, category, genre) ==
    IF ~validate_year(year) THEN "year"
    ELSE IF ~ \E c \in categories : c.slug = category THEN "category"
    ELSE IF ~ \A g \in genre : \E x \in genres : x.slug = g THEN "genre"
    ELSE OK

\* POST /titles/
TitleCreate(req, name, year, category, genre) ==
    LET err == IF ~IsAdminOrReadOnly("POST", req) THEN permission_denied(req)
               ELSE TitleWriteSerializer_is_valid(year, category, genre)
    IN /\ IF err # OK
          THEN UNCHANGED <<titles, nextTitleId>>
          ELSE /\ nextTitleId <= MaxTitles
               /\ titles' = (nextTitleId :> [name |-> name, year |-> year,
                                            category |-> Some(category),
                                            genre |-> genre]) @@ titles
               /\ nextTitleId' = nextTitleId + 1
       /\ last' = Respond("title_post", <<>>, err, 201)
       /\ UNCHANGED <<categories, genres, inflight>>
       /\ UNCHANGED reviewVars
       /\ UNCHANGED userVars

\* DELETE /titles/{id}/
TitleDelete(req, t) ==
    LET err == IF ~IsAdminOrReadOnly("DELETE", req) THEN permission_denied(req)
               ELSE IF t \notin DOMAIN titles THEN "not_found"
               ELSE OK
    IN /\ IF err # OK
          THEN UNCHANGED <<titles, reviews, comments>>
          ELSE /\ titles' = Restrict(titles, DOMAIN titles \ {t})
               /\ reviews' = CascadeTitleReviews(t)
               /\ comments' = CascadeComments(ReviewsOfTitle(reviews, t))
       /\ last' = Respond("title_delete", <<t>>, err, 204)
       /\ UNCHANGED <<categories, genres, nextTitleId, nextReviewId,
                      nextCommentId, inflight>>
       /\ UNCHANGED userVars

\* TitleWriteSerializer with partial=True: only the fields sent are checked
TitleWriteSerializer_is_valid_partial(year, category, genre) ==
    IF year # None /\ ~validate_year(year[1]) THEN "year"
    ELSE IF category # None /\ ~ \E c \in categories : c.slug = category[1]
    THEN "category"
    ELSE IF genre # None /\ ~ \A g \in genre[1] : \E x \in genres : x.slug = g
    THEN "genre"
    ELSE OK

\* PATCH /titles/{id}/ ; a field that is not sent is None
TitlePatch(req, t, year, category, genre) ==
    LET err == IF ~IsAdminOrReadOnly("PATCH", req) THEN permission_denied(req)
               ELSE IF t \notin DOMAIN titles THEN "not_found"
               ELSE TitleWriteSerializer_is_valid_partial(year, category, genre)
    IN /\ IF err # OK
          THEN UNCHANGED titles
          ELSE titles' = [titles EXCEPT
                  ![t].year = IF year = None THEN @ ELSE year[1],
                  ![t].category = IF category = None THEN @ ELSE category,
                  ![t].genre = IF genre = None THEN @ ELSE genre[1]]
       /\ last' = Respond("title_patch", <<t>>, err, 200)
       /\ UNCHANGED <<categories, genres, nextTitleId, inflight>>
       /\ UNCHANGED reviewVars
       /\ UNCHANGED userVars

\* GET /categories/ and GET /genres/ (kind is "category" or "genre")
NameSlugList(req, kind) ==
    LET err == IF ~IsAdminOrReadOnly("GET", req) THEN permission_denied(req)
               ELSE OK
    IN /\ last' = Respond(IF kind = "category" THEN "category_list"
                          ELSE "genre_list", <<>>, err, 200)
       /\ UNCHANGED <<inflight>>
       /\ UNCHANGED reviewVars
       /\ UNCHANGED catalogVars
       /\ UNCHANGED userVars

\* CategorySerializer, GenreSerializer: name and slug are unique
NameSlugSerializer_is_valid(rows, name, slug) ==
    IF \E x \in rows : x.name = name THEN "name"
    ELSE IF \E x \in rows : x.slug = slug THEN "slug"
    ELSE OK

\* POST /categories/
CategoryCreate(req, name, slug) ==
    LET err == IF ~IsAdminOrReadOnly("POST", req) THEN permission_denied(req)
               ELSE NameSlugSerializer_is_valid(categories, name, slug)
    IN /\ categories' = IF err = OK
                        THEN categories \cup {[name |-> name, slug |-> slug]}
                        ELSE categories
       /\ last' = Respond("category_post", <<slug>>, err, 201)
       /\ UNCHANGED <<genres, titles, nextTitleId, inflight>>
       /\ UNCHANGED reviewVars
       /\ UNCHANGED userVars

\* DELETE /categories/{slug}/
CategoryDelete(req, slug) ==
    LET err == IF ~IsAdminOrReadOnly("DELETE", req) THEN permission_denied(req)
               ELSE IF ~ \E c \in categories : c.slug = slug THEN "not_found"
               ELSE OK
    IN /\ IF err # OK
          THEN UNCHANGED <<categories, titles>>
          ELSE /\ categories' = {c \in categories : c.slug # slug}
               /\ titles' = SetNullCategory(slug)
       /\ last' = Respond("category_delete", <<slug>>, err, 204)
       /\ UNCHANGED <<genres, nextTitleId, inflight>>
       /\ UNCHANGED reviewVars
       /\ UNCHANGED userVars

\* (variant) the view set with UpdateModelMixin among its mixins
CustomModelViewSet_WithUpdate ==
    {"create", "list", "destroy", "partial_update"}

\* CustomModelViewSet: the actions its mixins give it
CustomModelViewSet == {"create", "list", "destroy"}

\* PATCH /categories/{slug}/ and PATCH /genres/{slug}/ with a new slug in
\* the body: the permissions are checked first, then the method is looked
\* up among the actions of the view set
NameSlugPatch(req, kind, slug, newslug) ==
    LET rows == IF kind = "category" THEN categories ELSE genres
        err == IF ~IsAdminOrReadOnly("PATCH", req) THEN permission_denied(req)
               ELSE IF "partial_update" \notin CustomModelViewSet
               THEN "method_not_allowed"
               ELSE IF ~ \E x \in rows : x.slug = slug THEN "not_found"
               ELSE IF \E x \in rows : x.slug = newslug /\ x.slug # slug
               THEN "slug"
               ELSE OK
        renamed == {IF x.slug = slug THEN [x EXCEPT !.slug = newslug] ELSE x :
                       x \in rows}
    IN /\ IF err # OK
          THEN UNCHANGED <<categories, genres, titles>>
          ELSE IF kind = "category"
          THEN /\ categories' = renamed
               /\ genres' = genres
               /\ titles' = [t \in DOMAIN titles |->
                    IF titles[t].category = Some(slug)
                    THEN [titles[t] EXCEPT !.category = Some(newslug)]
                    ELSE titles[t]]
          ELSE /\ genres' = renamed
               /\ categories' = categories
               /\ titles' = [t \in DOMAIN titles |->
                    IF slug \in titles[t].genre
                    THEN [titles[t] EXCEPT
                             !.genre = (@ \ {slug}) \cup {newslug}]
                    ELSE titles[t]]
       /\ last' = Respond(IF kind = "category" THEN "category_patch"
                          ELSE "genre_patch", <<slug, newslug>>, err, 200)
       /\ UNCHANGED <<nextTitleId, inflight>>
       /\ UNCHANGED reviewVars
       /\ UNCHANGED userVars

\* POST /genres/
GenreCreate(req, name, slug) ==
    LET err == IF ~IsAdminOrReadOnly("POST", req) THEN permission_denied(req)
               ELSE NameSlugSerializer_is_valid(genres, name, slug)
    IN /\ genres' = IF err = OK
                    THEN genres \cup {[name |-> name, slug |-> slug]}
                    ELSE genres
       /\ last' = Respond("genre_post", <<slug>>, err, 201)
       /\ UNCHANGED <<categories, titles, nextTitleId, inflight>>
       /\ UNCHANGED reviewVars
       /\ UNCHANGED userVars

\* DELETE /genres/{slug}/
GenreDelete(req, slug) ==
    LET err == IF ~IsAdminOrReadOnly("DELETE", req) THEN permission_denied(req)
               ELSE IF ~ \E g \in genres : g.slug = slug THEN "not_found"
               ELSE OK
    IN /\ IF err # OK
          THEN UNCHANGED <<genres, titles>>
          ELSE /\ genres' = {g \in genres : g.slug # slug}
               /\ titles' = DropGenre(slug)
       /\ last' = Respond("genre_delete", <<slug>>, err, 204)
       /\ UNCHANGED <<categories, nextTitleId, inflight>>
       /\ UNCHANGED reviewVars
       /\ UNCHANGED userVars

(***************************************************************************)
(* api/views.py: ReviewViewSet.create as two steps, for interleaving.      *)
(* Begin runs the permission check and serializer.is_valid(); Save runs    *)
(* perform_create for a request that passed.                               *)
(***************************************************************************)
NoRequest == [user |-> Anonymous, title |-> 0, score |-> 0, text |-> ""]

FreeSlots == {s \in DOMAIN inflight : inflight[s] = NoRequest}

ReviewCreateBegin(req, t, score, text) ==
    LET err == ReviewCreateChecks(req, t, score)
    IN /\ IF err # OK
          THEN /\ UNCHANGED inflight
               /\ last' = Respond("review_post", <<t>>, err, 201)
          ELSE /\ FreeSlots # {}
               /\ LET slot == CHOOSE s \in FreeSlots : \A o \in FreeSlots : s <= o
                  IN inflight' = [inflight EXCEPT ![slot] =
                         [user |-> req, title |-> t, score |-> score, text |-> text]]
               /\ last' = Respond("review_post_valid", <<t>>, OK, 0)
       /\ UNCHANGED reviewVars
       /\ UNCHANGED catalogVars
       /\ UNCHANGED userVars

ReviewCreateSave(slot) ==
    /\ inflight[slot] # NoRequest
    /\ LET r == inflight[slot]
       IN SaveReview("review_post_save", r.user, r.title, r.score, r.text)
    /\ inflight' = [inflight EXCEPT ![slot] = NoRequest]
    /\ UNCHANGED <<comments, nextCommentId>>
    /\ UNCHANGED catalogVars
    /\ UNCHANGED userVars

(***************************************************************************)
(* users/validators.py, users/models.py: the checks on username and email. *)
(* A string is checked through its spelling.                               *)
(***************************************************************************)
FORBIDDEN_USERNAME == "me"

UsernameInputs == {"me", "alice", "a b"}
EmailInputs == {"a@x.io", "b@x.io", "nomail"}
RoleInputs == {"user", "admin", "owner"}

Spelling(s) ==
    CASE s = "me" -> <<"m", "e">>
      [] s = "alice" -> <<"a", "l", "i", "c", "e">>
      [] s = "a b" -> <<"a", " ", "b">>
      [] s = "a@x.io" -> <<"a", "@", "x", ".", "i", "o">>
      [] s = "b@x.io" -> <<"b", "@", "x", ".", "i", "o">>
      [] s = "nomail" -> <<"n", "o", "m", "a", "i", "l">>
      [] OTHER -> << >>

WordChars == {"a", "b", "c", "e", "i", "l", "m", "n", "o", "x"}

\* RegexValidator(r'^[\w.@+-]+\Z')
UsernameRegex(s) ==
    LET w == Spelling(s)
    IN /\ Len(w) >= 1
       /\ \A i \in 1 .. Len(w) : w[i] \in WordChars \cup {".", "@", "+", "-"}

\* validate_username_not_me
validate_username_not_me(value) == value # FORBIDDEN_USERNAME

\* EmailField: one "@" between a local part and a dotted domain
EmailFormat(s) ==
    LET w == Spelling(s)
        at == {i \in 1 .. Len(w) : w[i] = "@"}
    IN /\ Cardinality(at) = 1
       /\ \A i \in at :
             /\ i > 1
             /\ \E j \in i + 2 .. Len(w) - 1 : w[j] = "."

ROLE_CHOICES == {"user", "moderator", "admin"}

UserByName(username) == {pk \in DOMAIN users : users[pk].username = username}
UserByEmail(email) == {pk \in DOMAIN users : users[pk].email = email}

(***************************************************************************)
(* The token generator and the mail service.                               *)
(***************************************************************************)
Blank == << >>

\* (variant) a generator that hands back the code the user already has
make_token_Kept(pk, u, ts) ==
    IF u.confirmation_code # Blank THEN u.confirmation_code
    ELSE <<ts, pk, u.email>>

\* default_token_generator.make_token(user): the timestamp and a keyed hash
\* of the user's pk, email and timestamp
make_token(pk, u, ts) == <<ts, pk, u.email>>

\* default_token_generator.check_token(user, token); the validity period of a
\* token is longer than the horizon MaxTime
check_token(pk, u, token, ts) ==
    /\ Len(token) = 3
    /\ token[1] <= ts
    /\ token = make_token(pk, u, token[1])

\* AccessToken.for_user(user)
AccessToken(pk) == Some(pk)

\* (variant) send_mail with fail_silently: a failed delivery is not reported
send_confirmation_email_Silent(delivered) == OK

\* users/service.py send_confirmation_email: "" when send_mail returns, the
\* 500 response when it raises
send_confirmation_email(delivered) ==
    IF delivered THEN OK ELSE "server_error"

(***************************************************************************)
(* users/serializers.py                                                    *)
(***************************************************************************)
\* (variant) validate without the check of the username
SignupSerializer_validate_EmailOnly(username, email) ==
    IF \E pk \in UserByEmail(email) : users[pk].username # username
    THEN "email"
    ELSE OK

\* SignupSerializer.validate
SignupSerializer_validate(username, email) ==
    IF \E pk \in UserByEmail(email) : users[pk].username # username
    THEN "email"
    ELSE IF \E pk \in UserByName(username) : users[pk].email # email
    THEN "username"
    ELSE OK

\* SignupSerializer.is_valid: the fields, then validate
SignupSerializer_is_valid(username, email) ==
    IF ~EmailFormat(email) THEN "email"
    ELSE IF ~UsernameRegex(username) THEN "username"
    ELSE IF ~validate_username_not_me(username) THEN "username"
    ELSE SignupSerializer_validate(username, email)

\* (variant) validate without the comparison with the stored code
TokenSerializer_validate_NoCompare(username, code) ==
    IF UserByName(username) = {}
    THEN [err |-> "not_found", data |-> << >>]
    ELSE LET pk == CHOOSE k \in UserByName(username) : TRUE
         IN IF code = Blank
            THEN [err |-> "confirmation_code", data |-> << >>]
            ELSE [err |-> OK,
                  data |-> [token |-> AccessToken(pk),
                            username |-> users[pk].username]]

\* TokenSerializer.validate: the error, or the dict that becomes validated_data
TokenSerializer_validate(username, code) ==
    IF UserByName(username) = {}
    THEN [err |-> "not_found", data |-> << >>]
    ELSE LET pk == CHOOSE k \in UserByName(username) : TRUE
         IN IF code = Blank
            THEN [err |-> "confirmation_code", data |-> << >>]
            ELSE IF users[pk].confirmation_code # code
            THEN [err |-> "confirmation_code", data |-> << >>]
            ELSE [err |-> OK,
                  data |-> [token |-> AccessToken(pk),
                            username |-> users[pk].username]]

\* TokenSerializer.is_valid: CharField() refuses a blank code, then validate
TokenSerializer_is_valid(username, code) ==
    IF code = Blank THEN [err |-> "confirmation_code", data |-> << >>]
    ELSE TokenSerializer_validate(username, code)

\* UserSerializer.is_valid: model validators and the unique checks
UserSerializer_is_valid(username, email, role) ==
    IF ~UsernameRegex(username) THEN "username"
    ELSE IF UserByName(username) # {} THEN "username"
    ELSE IF ~EmailFormat(email) THEN "email"
    ELSE IF UserByEmail(email) # {} THEN "email"
    ELSE IF role \notin ROLE_CHOICES THEN "role"
    ELSE OK

(***************************************************************************)
(* users/views.py                                                          *)
(***************************************************************************)
authFrame ==
    /\ UNCHANGED <<inflight>>
    /\ UNCHANGED reviewVars
    /\ UNCHANGED catalogVars

\* User.objects.create: username and email are unique columns
UserInsertAllowed(username, email) ==
    UserByName(username) = {} /\ UserByEmail(email) = {}

\* (variant) a new row that takes the highest role instead of the given one
NewUser_AsAdmin(username, email, role) ==
    [username |-> username, email |-> email, role |-> "admin",
     is_superuser |-> FALSE, confirmation_code |-> Blank, bio |-> ""]

NewUser(username, email, role) ==
    [username |-> username, email |-> email, role |-> role,
     is_superuser |-> FALSE, confirmation_code |-> Blank, bio |-> ""]

\* POST /auth/signup/ ; `delivered` is whether send_mail returns
Signup(username, email, delivered) ==
    /\ IF \E pk \in DOMAIN users :
             users[pk].username = username /\ users[pk].email = email
       THEN LET pk == CHOOSE k \in DOMAIN users :
                         users[k].username = username /\ users[k].email = email
                code == make_token(pk, users[pk], now)
                err == send_confirmation_email(delivered)
            IN /\ users' = [users EXCEPT ![pk].confirmation_code = code]
               /\ UNCHANGED nextUserId
               /\ last' = [Respond("signup", <<username, email>>, err, 200)
                              EXCEPT !.mail = IF delivered THEN "sent"
                                              ELSE "failed"]
       ELSE LET verr == SignupSerializer_is_valid(username, email)
            IN IF verr # OK
               THEN /\ UNCHANGED <<users, nextUserId>>
                    /\ last' = Respond("signup", <<username, email>>, verr, 200)
               ELSE IF ~UserInsertAllowed(username, email)
               THEN /\ UNCHANGED <<users, nextUserId>>
                    /\ last' = Respond("signup", <<username, email>>,
                                       "server_error", 200)
               ELSE LET pk == nextUserId
                        row == NewUser(username, email, "user")
                        code == make_token(pk, row, now)
                        err == send_confirmation_email(delivered)
                    IN /\ nextUserId <= MaxUsers
                       /\ users' = (pk :> [row EXCEPT !.confirmation_code = code])
                                   @@ users
                       /\ nextUserId' = nextUserId + 1
                       /\ last' = [Respond("signup", <<username, email>>, err, 200)
                                      EXCEPT !.mail = IF delivered THEN "sent"
                                                      ELSE "failed"]
    /\ UNCHANGED now
    /\ authFrame

\* TokenObtainView.post: the response to POST /auth/token/
TokenObtainView_post(username, code) ==
    LET v == TokenSerializer_is_valid(username, code)
        key == <<username, code>>
    IN IF v.err # OK
       THEN Respond("token", key, v.err, 200)
       ELSE IF UserByName(v.data["username"]) = {}
       THEN Respond("token", key, "not_found", 200)
       ELSE IF "confirmation_code" \notin DOMAIN v.data
       THEN \* validated_data['confirmation_code'] raises KeyError
            Respond("token", key, "server_error", 200)
       ELSE LET pk == CHOOSE k \in UserByName(v.data["username"]) : TRUE
            IN IF ~check_token(pk, users[pk], v.data["confirmation_code"], now)
               THEN Respond("token", key, "confirmation_code", 200)
               ELSE [Respond("token", key, OK, 200)
                        EXCEPT !.token = AccessToken(pk)]

\* POST /auth/token/ : the view writes nothing
TokenObtain(username, code) ==
    /\ last' = TokenObtainView_post(username, code)
    /\ UNCHANGED userVars
    /\ authFrame

\* POST /users/
UserCreate(req, username, email, role) ==
    LET err == IF ~IsAdmin(req) THEN permission_denied(req)
               ELSE UserSerializer_is_valid(username, email, role)
    IN /\ IF err # OK
          THEN UNCHANGED <<users, nextUserId>>
          ELSE /\ nextUserId <= MaxUsers
               /\ users' = (nextUserId :> NewUser(username, email, role)) @@ users
               /\ nextUserId' = nextUserId + 1
       /\ last' = Respond("user_post", <<username, email>>, err, 201)
       /\ UNCHANGED now
       /\ authFrame

\* UserSerializer (partial) saved on a row: __init__ makes role read-only
\* unless the requester is admin; a read-only field of the body is ignored
UserSerializer_update(req, row, role, bio) ==
    [row EXCEPT
        !.role = IF role = None \/ ~is_admin(users[req]) THEN @ ELSE role[1],
        !.bio = IF bio = None THEN @ ELSE bio[1]]

\* UserSerializer (partial) is_valid: the choices of role, when it is writable
UserSerializer_is_valid_partial(req, role) ==
    IF role # None /\ is_admin(users[req]) /\ role[1] \notin ROLE_CHOICES
    THEN "role"
    ELSE OK

\* MeSerializer: the profile fields, role read-only
MeSerializer_update(row, role, bio) ==
    [row EXCEPT !.bio = IF bio = None THEN @ ELSE bio[1]]

usersFrame ==
    /\ UNCHANGED <<nextUserId, now, inflight>>
    /\ UNCHANGED catalogVars

\* GET /users/ and, with a username, GET /users/{username}/
UserRead(req, username) ==
    LET err == IF ~IsAdmin(req) THEN permission_denied(req)
               ELSE IF username # None /\ UserByName(username[1]) = {}
               THEN "not_found"
               ELSE OK
    IN /\ last' = Respond(IF username = None THEN "user_list" ELSE "user_get",
                          <<req>> \o username, err, 200)
       /\ UNCHANGED users
       /\ UNCHANGED reviewVars
       /\ usersFrame

\* PATCH /users/{username}/ ; a field that is not sent is None
UserPatch(req, username, role, bio) ==
    LET err == IF ~IsAdmin(req) THEN permission_denied(req)
               ELSE IF UserByName(username) = {} THEN "not_found"
               ELSE UserSerializer_is_valid_partial(req, role)
    IN /\ IF err # OK
          THEN UNCHANGED users
          ELSE LET pk == CHOOSE k \in UserByName(username) : TRUE
               IN users' = [users EXCEPT
                               ![pk] = UserSerializer_update(req, @, role, bio)]
       /\ last' = Respond("user_patch", <<req, username>>, err, 200)
       /\ UNCHANGED reviewVars
       /\ usersFrame

\* (variant) a deletion that takes the user row only
UserDelete_KeepPosts(req, username) ==
    LET err == IF ~IsAdmin(req) THEN permission_denied(req)
               ELSE IF UserByName(username) = {} THEN "not_found"
               ELSE OK
    IN /\ IF err # OK
          THEN UNCHANGED users
          ELSE users' = Restrict(users, DOMAIN users \ UserByName(username))
       /\ last' = Respond("user_delete", <<req, username>>, err, 204)
       /\ UNCHANGED reviewVars
       /\ usersFrame

\* DELETE /users/{username}/ : the reviews and comments of the user go with
\* the row (author on_delete=CASCADE), and the comments on those reviews
UserDelete(req, username) ==
    LET err == IF ~IsAdmin(req) THEN permission_denied(req)
               ELSE IF UserByName(username) = {} THEN "not_found"
               ELSE OK
    IN /\ IF err # OK
          THEN UNCHANGED <<users, reviews, comments>>
          ELSE LET pk == CHOOSE k \in UserByName(username) : TRUE
                   gone == {r \in DOMAIN reviews : reviews[r].author = pk}
                   kept == CascadeComments(gone)
               IN /\ users' = Restrict(users, DOMAIN users \ {pk})
                  /\ reviews' = Restrict(reviews, DOMAIN reviews \ gone)
                  /\ comments' = Restrict(kept,
                        {c \in DOMAIN kept : kept[c].author # pk})
       /\ last' = Respond("user_delete", <<req, username>>, err, 204)
       /\ UNCHANGED <<nextReviewId, nextCommentId>>
       /\ usersFrame

\* GET /users/me/ (permission IsAuthenticated)
MeGet(req) ==
    /\ last' = Respond("me_get", <<req>>,
                       IF is_authenticated(req) THEN OK
                       ELSE permission_denied(req), 200)
    /\ UNCHANGED users
    /\ UNCHANGED reviewVars
    /\ usersFrame

\* PATCH /users/me/ (permission IsAuthenticated, MeSerializer, partial)
MePatch(req, role, bio) ==
    /\ IF ~is_authenticated(req)
       THEN /\ UNCHANGED users
            /\ last' = Respond("me_patch", <<req>>, permission_denied(req), 200)
       ELSE /\ users' = [users EXCEPT ![req] = MeSerializer_update(@, role, bio)]
            /\ last' = Respond("me_patch", <<req>>, OK, 200)
    /\ UNCHANGED reviewVars
    /\ usersFrame

\* a second passes
Tick ==
    /\ now < MaxTime
    /\ now' = now + 1
    /\ last' = Respond("tick", <<>>, OK, 0)
    /\ UNCHANGED <<users, nextUserId>>
    /\ authFrame

(***************************************************************************)
(* Initial states.  The accounts are an admin, a moderator and two users;  *)
(* titles that exist at the start were created by the admin.               *)
(***************************************************************************)
Account(username, email, role) ==
    [username |-> username, email |-> email, role |-> role,
     is_superuser |-> FALSE, confirmation_code |-> None, bio |-> ""]

Admin == 1
Moderator == 2
Alice == 3
Bob == 4
Super == 5

Accounts ==
    (Admin :> Account("admin", "admin@x", "admin"))
    @@ (Moderator :> Account("mod", "mod@x", "moderator"))
    @@ (Alice :> Account("alice", "alice@x", "user"))
    @@ (Bob :> Account("bob", "bob@x", "user"))
    @@ (Super :> [Account("super", "super@x", "user")
                     EXCEPT !.is_superuser = TRUE])

TitleRow(category, genre) ==
    [name |-> "Dune", year |-> 2023, category |-> category, genre |-> genre]

ReviewIds == 1 .. MaxReviews
CommentIds == 1 .. MaxComments
OptScore == {None} \cup {Some(s) : s \in ScoreInputs}
OptText == {None} \cup {Some(x) : x \in TextInputs}

\* two titles without a category, no reviews yet
InitTwoTitles ==
    /\ users = Accounts
    /\ nextUserId = 6
    /\ categories = {}
    /\ genres = {}
    /\ titles = (1 :> TitleRow(None, {})) @@ (2 :> TitleRow(None, {}))
    /\ nextTitleId = 3
    /\ reviews = << >>
    /\ nextReviewId = 1
    /\ comments = << >>
    /\ nextCommentId = 1
    /\ inflight = [s \in 1 .. MaxInFlight |-> NoRequest]
    /\ now = 0
    /\ last = Respond("none", <<>>, OK, 0)

(***************************************************************************)
(* Spec: review handlers and the title read.                                *)
(***************************************************************************)
Init == InitTwoTitles

Requesters == {Anonymous, Alice, Bob}
KnownTitleIds == {1, 2}

Next ==
    \/ \E req \in Requesters, t \in KnownTitleIds, s \in ScoreInputs, x \in TextInputs :
          ReviewCreate(req, t, s, x)
    \/ \E req \in Requesters, t \in KnownTitleIds, id \in ReviewIds,
          s \in OptScore, x \in OptText :
          ReviewPatch(req, t, id, s, x)
    \/ \E req \in Requesters, t \in KnownTitleIds, id \in ReviewIds :
          ReviewDelete(req, t, id)
    \/ \E req \in Requesters, t \in KnownTitleIds : TitleRetrieve(req, t)

Spec == Init /\ [][Next]_vars

(***************************************************************************)
(* SpecRace: concurrent review POSTs on title 1.                           *)
(***************************************************************************)
RaceRequesters == {Anonymous, Alice, Bob}

NextRace ==
    \/ \E req \in RaceRequesters, s \in ScoreInputs, x \in TextInputs :
          ReviewCreateBegin(req, 1, s, x)
    \/ \E slot \in 1 .. MaxInFlight : ReviewCreateSave(slot)
    \/ \E req \in RaceRequesters, id \in ReviewIds : ReviewDelete(req, 1, id)

SpecRace == InitTwoTitles /\ [][NextRace]_vars

(***************************************************************************)
(* SpecCascade: reviews and comments are written under two titles, and the *)
(* admin deletes titles.                                                   *)
(***************************************************************************)
CascadeRequesters == {Anonymous, Admin, Alice}

NextCascade ==
    \/ \E req \in CascadeRequesters, t \in KnownTitleIds, x \in TextInputs :
          ReviewCreate(req, t, MAX_SCORE, x)
    \/ \E req \in CascadeRequesters, t \in KnownTitleIds, r \in ReviewIds,
          x \in TextInputs :
          CommentCreate(req, t, r, x)
    \/ \E req \in CascadeRequesters, t \in KnownTitleIds : TitleDelete(req, t)

SpecCascade == InitTwoTitles /\ [][NextCascade]_vars

(***************************************************************************)
(* SpecCatalog: category, genre and title handlers.  At the start the      *)
(* category "films" holds title 1, which has a review and a comment.       *)
(***************************************************************************)
InitCatalog ==
    /\ users = Accounts
    /\ nextUserId = 6
    /\ categories = {[name |-> "Films", slug |-> "films"]}
    /\ genres = {}
    /\ titles = (1 :> TitleRow(Some("films"), {}))
    /\ nextTitleId = 2
    /\ reviews = (1 :> [title |-> 1, author |-> Alice, score |-> MAX_SCORE,
                        text |-> "txt", pub_date |-> 0])
    /\ nextReviewId = 2
    /\ comments = (1 :> [review |-> 1, author |-> Bob, text |-> "txt"])
    /\ nextCommentId = 2
    /\ inflight = [s \in 1 .. MaxInFlight |-> NoRequest]
    /\ now = 0
    /\ last = Respond("none", <<>>, OK, 0)

CatalogRequesters == {Anonymous, Admin, Alice}
TitleIds == 1 .. MaxTitles

NextCatalog ==
    \/ \E req \in CatalogRequesters, n \in CategoryNames, s \in CategorySlugs :
          CategoryCreate(req, n, s)
    \/ \E req \in CatalogRequesters, s \in CategorySlugs : CategoryDelete(req, s)
    \/ \E req \in CatalogRequesters, n \in GenreNames, s \in GenreSlugs :
          GenreCreate(req, n, s)
    \/ \E req \in CatalogRequesters, s \in GenreSlugs : GenreDelete(req, s)
    \/ \E req \in CatalogRequesters, n \in TitleNames, y \in YearInputs,
          c \in CategorySlugs, g \in SUBSET GenreSlugs :
          TitleCreate(req, n, y, c, g)
    \/ \E req \in CatalogRequesters, t \in TitleIds : TitleDelete(req, t)

SpecCatalog == InitCatalog /\ [][NextCatalog]_vars

(***************************************************************************)
(* SpecSlug: categories and genres created, listed, deleted and addressed  *)
(* by PATCH, with titles that reference them.                              *)
(***************************************************************************)
SlugRequesters == {Anonymous, Admin}

NextSlug ==
    \/ \E req \in SlugRequesters, n \in CategoryNames, s \in CategorySlugs :
          CategoryCreate(req, n, s)
    \/ \E req \in SlugRequesters, s \in CategorySlugs : CategoryDelete(req, s)
    \/ \E req \in SlugRequesters, n \in GenreNames, s \in GenreSlugs :
          GenreCreate(req, n, s)
    \/ \E req \in SlugRequesters, s \in GenreSlugs : GenreDelete(req, s)
    \/ \E req \in SlugRequesters, k \in {"category", "genre"},
          s \in CategorySlugs \cup GenreSlugs : NameSlugPatch(req, k, s, "books")
    \/ \E req \in SlugRequesters, k \in {"category", "genre"} :
          NameSlugList(req, k)
    \/ \E c \in CategorySlugs, g \in SUBSET GenreSlugs :
          TitleCreate(Admin, "Dune", 2023, c, g)

SpecSlug == InitCatalog /\ [][NextSlug]_vars

(***************************************************************************)
(* SpecReviewFrame: reviews posted at different times by two users on two  *)
(* titles, and PATCH requests whose bodies name every field of a review.   *)
(***************************************************************************)
ReviewPatchBodyInputs ==
    {[score |-> 5], [author |-> Bob], [title |-> 2, pub_date |-> 1],
     [score |-> 5, text |-> "txt", title |-> 2, author |-> Bob,
      pub_date |-> 1]}

NextReviewFrame ==
    \/ \E req \in {Alice, Bob}, t \in KnownTitleIds :
          ReviewCreate(req, t, MAX_SCORE, "txt")
    \/ \E req \in {Alice, Admin}, id \in ReviewIds,
          b \in ReviewPatchBodyInputs :
          ReviewPatchBody(req, 1, id, b)
    \/ ReviewDelete(Admin, 1, 1)
    \/ Tick

SpecReviewFrame == InitTwoTitles /\ [][NextReviewFrame]_vars

(***************************************************************************)
(* SpecCatalogAccess: every catalog request, reads included, by every kind *)
(* of requester: anonymous, admin, moderator, user and a superuser whose   *)
(* role is user.                                                           *)
(***************************************************************************)
AccessRequesters == {Anonymous, Admin, Moderator, Alice, Super}

\* the PATCH bodies sent: a new category, a year in the future, a genre
TitlePatchBodies ==
    {[year |-> None, category |-> Some("books"), genre |-> None],
     [year |-> Some(2027), category |-> None, genre |-> None],
     [year |-> None, category |-> None, genre |-> Some({"drama"})]}

NextCatalogAccess ==
    \/ \E req \in AccessRequesters : CategoryCreate(req, "Books", "books")
    \/ \E req \in AccessRequesters, s \in CategorySlugs : CategoryDelete(req, s)
    \/ \E req \in AccessRequesters, n \in GenreNames, s \in GenreSlugs :
          GenreCreate(req, n, s)
    \/ \E req \in AccessRequesters, s \in GenreSlugs : GenreDelete(req, s)
    \/ \E req \in AccessRequesters, n \in TitleNames, y \in YearInputs :
          TitleCreate(req, n, y, "films", {})
    \/ \E req \in AccessRequesters, t \in TitleIds : TitleDelete(req, t)
    \/ \E req \in AccessRequesters, b \in TitlePatchBodies :
          TitlePatch(req, 1, b.year, b.category, b.genre)
    \/ \E req \in AccessRequesters, t \in TitleIds : TitleRetrieve(req, t)
    \/ \E req \in AccessRequesters, k \in {"category", "genre"} :
          NameSlugList(req, k)

SpecCatalogAccess == InitCatalog /\ [][NextCatalogAccess]_vars

(***************************************************************************)
(* SpecReviewAccess: every review and comment request, reads included, by  *)
(* every kind of requester, on a title with a review by Alice and a        *)
(* comment by Bob.  PATCH requests address that review and that comment,   *)
(* DELETE and GET requests any id.                                         *)
(***************************************************************************)
ReviewAccessRequesters == {Anonymous, Admin, Moderator, Alice, Bob, Super}
\* who posts reviews and who posts comments: between them every kind
ReviewPosters == {Anonymous, Alice, Admin}
CommentPosters == {Anonymous, Bob, Moderator}
EditedText == Some("edited")

NextReviewAccess ==
    \/ \E req \in ReviewPosters : ReviewCreate(req, 1, MAX_SCORE, "txt")
    \/ \E req \in ReviewAccessRequesters : ReviewPatch(req, 1, 1, None, EditedText)
    \/ \E req \in ReviewAccessRequesters, id \in ReviewIds : ReviewDelete(req, 1, id)
    \/ \E req \in ReviewAccessRequesters, id \in {None} \cup {Some(i) : i \in ReviewIds} :
          ReviewRead(req, 1, id)
    \/ \E req \in CommentPosters : CommentCreate(req, 1, 1, "txt")
    \/ \E req \in ReviewAccessRequesters : CommentPatch(req, 1, 1, 1, EditedText)
    \/ \E req \in ReviewAccessRequesters, id \in CommentIds :
          CommentDelete(req, 1, 1, id)
    \/ \E req \in ReviewAccessRequesters,
          id \in {None} \cup {Some(i) : i \in CommentIds} :
          CommentRead(req, 1, 1, id)

SpecReviewAccess == InitCatalog /\ [][NextReviewAccess]_vars

(***************************************************************************)
(* reviews/views.py: the ReviewViewSet that stores a review and then has   *)
(* the rating of its title recomputed.  The Title table has no rating      *)
(* column, so of the recomputation only its outcome is kept: `fails` is    *)
(* whether it raises.  The view opens no transaction itself; the request   *)
(* runs in the one the project settings give it.                           *)
(***************************************************************************)
\* every request is one transaction: an exception rolls its writes back
ATOMIC_REQUESTS == TRUE

\* UpdateRatingMixin.update_title_rating
update_title_rating(fails) == IF fails THEN "server_error" ELSE OK

\* perform_create: serializer.save(user=...) hands Review a keyword it does
\* not have and raises before a row is written
reviews_views_perform_create(fails) ==
    [saved |-> FALSE, err |-> "server_error"]

\* (variant) perform_update that catches what the recomputation raises
reviews_views_perform_update_Caught(fails) ==
    [saved |-> TRUE, err |-> OK]

\* perform_update: serializer.save(), then the recomputation
reviews_views_perform_update(fails) ==
    [saved |-> TRUE, err |-> update_title_rating(fails)]

\* perform_destroy: instance.delete(), then the recomputation
reviews_views_perform_destroy(fails) ==
    [saved |-> TRUE, err |-> update_title_rating(fails)]

\* what of the handler's writes is in the database when the response leaves
Committed(outcome) ==
    outcome.saved /\ (outcome.err = OK \/ ~ATOMIC_REQUESTS)

draftFrame ==
    /\ UNCHANGED <<nextReviewId, nextCommentId, inflight>>
    /\ UNCHANGED catalogVars
    /\ UNCHANGED userVars

\* POST of a review to the view
DraftReviewCreate(req, t, score, fails) ==
    LET verr == ReviewSerializer_is_valid("POST", req, t, score)
        outcome == reviews_views_perform_create(fails)
    IN /\ last' = Respond("draft_review_post", <<t>>,
                          IF verr # OK THEN verr ELSE outcome.err, 201)
       /\ UNCHANGED <<reviews, comments>>
       /\ draftFrame

\* PATCH of the score of review id
DraftReviewUpdate(id, score, fails) ==
    LET verr == IF id \notin DOMAIN reviews THEN "not_found"
                ELSE ReviewSerializer_is_valid("PATCH", reviews[id].author,
                                               reviews[id].title, score)
        outcome == reviews_views_perform_update(fails)
    IN /\ IF verr = OK /\ Committed(outcome)
          THEN reviews' = [reviews EXCEPT ![id].score = score]
          ELSE UNCHANGED reviews
       /\ last' = Respond("draft_review_patch", <<id>>,
                          IF verr # OK THEN verr ELSE outcome.err, 200)
       /\ UNCHANGED comments
       /\ draftFrame

\* DELETE of review id
DraftReviewDestroy(id, fails) ==
    LET verr == IF id \notin DOMAIN reviews THEN "not_found" ELSE OK
        outcome == reviews_views_perform_destroy(fails)
    IN /\ IF verr = OK /\ Committed(outcome)
          THEN /\ reviews' = Restrict(reviews, DOMAIN reviews \ {id})
               /\ comments' = CascadeComments({id})
          ELSE UNCHANGED <<reviews, comments>>
       /\ last' = Respond("draft_review_delete", <<id>>,
                          IF verr # OK THEN verr ELSE outcome.err, 204)
       /\ draftFrame

(***************************************************************************)
(* SpecUsers: the user endpoints, /users/me/ included, by every kind of    *)
(* requester.                                                              *)
(***************************************************************************)
UserRequesters == {Anonymous, Admin, Moderator, Alice, Bob, Super}
PatchedUsernames == {"alice", "admin", "nobody"}
DeletedUsernames == {"bob", "nobody"}
OptRole == {None} \cup {Some(r) : r \in RoleInputs}
NewBio == Some("hi")

\* the token of a deleted user no longer authenticates
LiveRequesters == UserRequesters \cap ({Anonymous} \cup DOMAIN users)

NextUsers ==
    \/ \E req \in LiveRequesters, r \in {"user", "owner"} :
          UserCreate(req, "me", "a@x.io", r)
    \/ \E req \in LiveRequesters,
          u \in {None} \cup {Some(n) : n \in PatchedUsernames} :
          UserRead(req, u)
    \/ \E req \in LiveRequesters, u \in PatchedUsernames, r \in OptRole \ {None} :
          UserPatch(req, u, r, None)
    \/ \E req \in LiveRequesters, u \in DeletedUsernames : UserDelete(req, u)
    \/ \E req \in LiveRequesters : MeGet(req)
    \/ \E req \in LiveRequesters, r \in {None, Some("admin")} :
          MePatch(req, r, NewBio)

SpecUsers == InitCatalog /\ [][NextUsers]_vars

(***************************************************************************)
(* SpecDraft: the review view with the recomputation step, on a title with *)
(* two reviews.                                                            *)
(***************************************************************************)
DraftScores == {1, 5, MAX_SCORE, 11}

InitDraft ==
    /\ users = Accounts
    /\ nextUserId = 6
    /\ categories = {[name |-> "Films", slug |-> "films"]}
    /\ genres = {}
    /\ titles = (1 :> TitleRow(Some("films"), {}))
    /\ nextTitleId = 2
    /\ reviews = (1 :> [title |-> 1, author |-> Alice, score |-> MAX_SCORE,
                        text |-> "txt", pub_date |-> 0])
                 @@ (2 :> [title |-> 1, author |-> Bob, score |-> MIN_SCORE,
                           text |-> "txt", pub_date |-> 0])
    /\ nextReviewId = 3
    /\ comments = (1 :> [review |-> 1, author |-> Bob, text |-> "txt"])
    /\ nextCommentId = 2
    /\ inflight = [s \in 1 .. MaxInFlight |-> NoRequest]
    /\ now = 0
    /\ last = Respond("none", <<>>, OK, 0)

NextDraft ==
    \/ \E req \in {Alice, Moderator}, s \in DraftScores, f \in BOOLEAN :
          DraftReviewCreate(req, 1, s, f)
    \/ \E id \in ReviewIds, s \in DraftScores, f \in BOOLEAN :
          DraftReviewUpdate(id, s, f)
    \/ \E id \in ReviewIds, f \in BOOLEAN : DraftReviewDestroy(id, f)

SpecDraft == InitDraft /\ [][NextDraft]_vars

(***************************************************************************)
(* SpecSuper: the operations reserved to admins, requested by a superuser  *)
(* whose role is user or moderator and by a plain user.                    *)
(***************************************************************************)
SuperRequesters == {Super, Alice}

\* the requests of one requester
SuperRequest(req) ==
    \/ CategoryCreate(req, "Books", "books")
    \/ \E s \in CategorySlugs : CategoryDelete(req, s)
    \/ GenreCreate(req, "Drama", "drama")
    \/ TitleCreate(req, "Dune", 2023, "films", {})
    \/ TitlePatch(req, 1, Some(2023), None, None)
    \/ UserRead(req, None)
    \/ \E r \in {"user", "moderator"} : UserPatch(req, "super", Some(r), None)
    \/ UserDelete(req, "bob")
    \/ UserCreate(req, "me", "a@x.io", "user")
    \/ ReviewPatch(req, 1, 1, None, EditedText)
    \/ ReviewDelete(req, 1, 1)
    \/ CommentPatch(req, 1, 1, 1, EditedText)
    \/ CommentDelete(req, 1, 1, 1)

NextSuper == \E req \in SuperRequesters : SuperRequest(req)

SpecSuper == InitCatalog /\ [][NextSuper]_vars

(***************************************************************************)
(* SpecUserCascade: users who have reviews and comments are deleted and    *)
(* the title is read.  The title starts with three reviews.                *)
(***************************************************************************)
InitThreeReviews ==
    /\ users = Accounts
    /\ nextUserId = 6
    /\ categories = {}
    /\ genres = {}
    /\ titles = (1 :> TitleRow(None, {}))
    /\ nextTitleId = 2
    /\ reviews = (1 :> [title |-> 1, author |-> Alice, score |-> MAX_SCORE,
                        text |-> "txt", pub_date |-> 0])
                 @@ (2 :> [title |-> 1, author |-> Bob, score |-> MIN_SCORE,
                           text |-> "txt", pub_date |-> 0])
                 @@ (3 :> [title |-> 1, author |-> Moderator,
                           score |-> MAX_SCORE, text |-> "txt",
                           pub_date |-> 0])
    /\ nextReviewId = 4
    /\ comments = << >>
    /\ nextCommentId = 1
    /\ inflight = [s \in 1 .. MaxInFlight |-> NoRequest]
    /\ now = 0
    /\ last = Respond("none", <<>>, OK, 0)

Commenters == {Alice, Bob}

NextUserCascade ==
    \/ \E req \in Commenters \cap DOMAIN users, r \in 1 .. 3 :
          CommentCreate(req, 1, r, "txt")
    \/ \E s \in {MIN_SCORE, MAX_SCORE} :
          /\ Moderator \in DOMAIN users
          /\ ReviewPatch(Moderator, 1, 3, Some(s), None)
    \/ \E u \in {"alice", "bob", "nobody"} : UserDelete(Admin, u)
    \/ TitleRetrieve(Anonymous, 1)

SpecUserCascade == InitThreeReviews /\ [][NextUserCascade]_vars

(***************************************************************************)
(* SpecNesting: review and comment requests under existing and missing     *)
(* titles and under reviews of the same and of another title.              *)
(***************************************************************************)
NestTitleIds == {1, 2, 3}
NestRequesters == {Anonymous, Alice}
NestScores == {5, 11}
NestReviewIds == {1, 2}

\* the requests of one requester: detail requests address review 1 and
\* comment 1, comment requests go under reviews 1 and 2
NestRequest(req) ==
    \/ \E t \in {1, 3}, s \in NestScores : ReviewCreate(req, t, s, "txt")
    \/ \E t \in NestTitleIds, s \in NestScores :
          ReviewPatch(req, t, 1, Some(s), None)
    \/ \E t \in NestTitleIds : ReviewDelete(req, t, 1)
    \/ \E t \in NestTitleIds, id \in {None, Some(1)} : ReviewRead(req, t, id)
    \/ \E t \in NestTitleIds, r \in NestReviewIds :
          CommentCreate(req, t, r, "txt")
    \/ \E t \in NestTitleIds, r \in NestReviewIds :
          CommentPatch(req, t, r, 1, EditedText)
    \/ \E t \in NestTitleIds, r \in NestReviewIds : CommentDelete(req, t, r, 1)
    \/ \E t \in NestTitleIds, id \in {None, Some(1)} :
          CommentRead(req, t, 1, id)

NextNesting == \E req \in NestRequesters : NestRequest(req)

SpecNesting == InitTwoTitles /\ [][NextNesting]_vars

(***************************************************************************)
(* SpecAuth: signup, token and the admin user endpoint.  At the start the  *)
(* only account is the superuser made at installation.                     *)
(***************************************************************************)
Root == 1

InitAuth ==
    /\ users = (Root :> [username |-> "root", email |-> "root@x.io",
                         role |-> "user", is_superuser |-> TRUE,
                         confirmation_code |-> Blank, bio |-> ""])
    /\ nextUserId = 2
    /\ categories = {}
    /\ genres = {}
    /\ titles = << >>
    /\ nextTitleId = 1
    /\ reviews = << >>
    /\ nextReviewId = 1
    /\ comments = << >>
    /\ nextCommentId = 1
    /\ inflight = [s \in 1 .. MaxInFlight |-> NoRequest]
    /\ now = 0
    /\ last = Respond("none", <<>>, OK, 0)

WrongCode == <<-1, 0, "">>

\* the codes a client may present: any code mailed so far or later to a
\* current address, a code that was never issued, and no code
CodeInputs ==
    {make_token(pk, users[pk], ts) : pk \in DOMAIN users, ts \in 0 .. now}
    \cup {WrongCode, Blank}

NextAuth ==
    \/ \E u \in UsernameInputs, e \in EmailInputs, d \in BOOLEAN : Signup(u, e, d)
    \/ \E u \in UsernameInputs, c \in CodeInputs : TokenObtain(u, c)
    \/ \E req \in {Anonymous} \cup DOMAIN users, u \in UsernameInputs,
          e \in EmailInputs, r \in RoleInputs :
          UserCreate(req, u, e, r)
    \/ Tick

SpecAuth == InitAuth /\ [][NextAuth]_vars

(***************************************************************************)
(* Properties of the review handlers.                                      *)
(***************************************************************************)
ScoresOfTitle(t) ==
    LET R == ReviewsOfTitle(reviews, t)
    IN [sum |-> SumOver([r \in R |-> reviews[r].score], R),
        count |-> Cardinality(R)]

TitleWasRead == last.op = "title_get" /\ last.status = 200

AtMostOneReviewPerPair ==
    \A r1, r2 \in DOMAIN reviews :
        (reviews[r1].title = reviews[r2].title
         /\ reviews[r1].author = reviews[r2].author) => r1 = r2

C2_DuplicatePostRejected ==
    last'.op = "review_post" =>
        \A req \in {u \in DOMAIN users : ~UniqueReview(reviews, last'.key[1], u)},
           s \in ScoreInputs, x \in TextInputs :
            ReviewCreate(req, last'.key[1], s, x)
                => (last'.status = 400 /\ reviews' = reviews)

C2_OneReviewPerPair ==
    [] AtMostOneReviewPerPair /\ [][C2_DuplicatePostRejected]_vars

\* a second POST by the author of a review of the title has been refused
C2_Witness ==
    /\ last.op = "review_post"
    /\ last.status = 400
    /\ last.detail = "non_field_errors"
    /\ ReviewsOfTitle(reviews, last.key[1]) # {}

\* C3: when two POSTs of one author for one title both pass validation before
\* either saves, the save that comes second is refused by the unique
\* constraint and stores nothing, so the pair never has two reviews.
C3_SecondSaveFails ==
    \A slot \in DOMAIN inflight :
        (ReviewCreateSave(slot)
         /\ \E r \in DOMAIN reviews :
               /\ reviews[r].title = inflight[slot].title
               /\ reviews[r].author = inflight[slot].user)
            => (last'.status = 500 /\ reviews' = reviews)

C3_ConcurrentPostsKeepOne ==
    [] AtMostOneReviewPerPair /\ [][C3_SecondSaveFails]_vars

\* a save was refused after its request had passed validation
C3_Witness ==
    /\ last.op = "review_post_save"
    /\ last.status = 500
    /\ ReviewsOfTitle(reviews, last.key[1]) # {}

\* C4: the score check accepts exactly the integers 1..10; a create or PATCH
\* with a score outside them fails the checks that precede the save, with a
\* validation error on the score once the permission and lookup checks have
\* passed; a refused create or PATCH stores nothing; every stored score is in
\* 1..10.
ScoreCheckAccepts(v) == ScoreField(v) /\ validate_score(v)

StoredScoresInRange ==
    \A r \in DOMAIN reviews : reviews[r].score >= 1 /\ reviews[r].score <= 10

OutOfRange == {s \in ScoreInputs : s < 1 \/ s > 10}

OutOfRangeFailsChecks ==
    /\ \A req \in Requesters, t \in KnownTitleIds, s \in OutOfRange :
          /\ ReviewCreateChecks(req, t, s) # OK
          /\ is_authenticated(req) => ReviewCreateChecks(req, t, s) = "score"
    /\ \A req \in Requesters, t \in KnownTitleIds, id \in ReviewIds,
          s \in OutOfRange :
          /\ ReviewPatchChecks(req, t, id, Some(s)) # OK
          /\ ReviewObjectChecks("PATCH", req, t, id) = OK
                => ReviewPatchChecks(req, t, id, Some(s)) = "score"

RefusedStoresNothing ==
    (last'.op \in {"review_post", "review_patch"} /\ last'.status >= 400)
        => reviews' = reviews

NoOrphans ==
    /\ \A r \in DOMAIN reviews : reviews[r].title \in DOMAIN titles
    /\ \A c \in DOMAIN comments : comments[c].review \in DOMAIN reviews

\* C5: a deleted title takes its reviews and their comments with it and leaves
\* the reviews and comments of other titles as they were; no review is left
\* without its title and no comment without its review.
C5_TitleDeleteEffect ==
    (last'.op = "title_delete" /\ last'.status = 204) =>
        LET t == last'.key[1]
            kept == {r \in DOMAIN reviews : reviews[r].title # t}
            keptc == {c \in DOMAIN comments : comments[c].review \in kept}
        IN /\ t \in DOMAIN titles
           /\ DOMAIN titles' = DOMAIN titles \ {t}
           /\ DOMAIN reviews' = kept
           /\ \A r \in kept : reviews'[r] = reviews[r]
           /\ DOMAIN comments' = keptc
           /\ \A c \in keptc : comments'[c] = comments[c]

C5_TitleDeleteCascades ==
    [] NoOrphans /\ [][C5_TitleDeleteEffect]_vars

\* a title was deleted: a review and a comment are gone with it (no other
\* handler of SpecCascade removes them), a review and a comment of the other
\* title are still there
C5_Witness ==
    /\ last.op = "title_delete"
    /\ last.status = 204
    /\ \E r \in 1 .. nextReviewId - 1 : r \notin DOMAIN reviews
    /\ \E c \in 1 .. nextCommentId - 1 : c \notin DOMAIN comments
    /\ DOMAIN reviews # {}
    /\ DOMAIN comments # {}

\* C6: a deleted category leaves every title in place: the titles that
\* referenced it have category null, every other field of every title, the
\* reviews and the comments are as before.
C6_CategoryDeleteEffect ==
    (last'.op = "category_delete" /\ last'.status = 204) =>
        LET slug == last'.key[1]
        IN /\ \E c \in categories : c.slug = slug
           /\ categories' = {c \in categories : c.slug # slug}
           /\ DOMAIN titles' = DOMAIN titles
           /\ \A t \in DOMAIN titles :
                 /\ titles'[t].category =
                       IF titles[t].category = Some(slug) THEN None
                       ELSE titles[t].category
                 /\ titles'[t].name = titles[t].name
                 /\ titles'[t].year = titles[t].year
                 /\ titles'[t].genre = titles[t].genre
           /\ reviews' = reviews
           /\ comments' = comments
           /\ genres' = genres

C6_CategoryDeleteSetsNull == [][C6_CategoryDeleteEffect]_vars

\* a category was deleted and a title that referenced it (every title is
\* created with a category) is there with category null, next to its review
\* and comment
C6_Witness ==
    /\ last.op = "category_delete"
    /\ last.status = 204
    /\ \E t \in DOMAIN titles :
          /\ titles[t].category = None
          /\ ReviewsOfTitle(reviews, t) # {}
          /\ CommentsOfReviews(comments, ReviewsOfTitle(reviews, t)) # {}

(***************************************************************************)
(* Properties of signup and of the token endpoint (SpecAuth).              *)
(***************************************************************************)
SignupAnswered == last.op = "signup"

\* the user whose username and email are both those of the signup request
\* just answered, seen before the request
PairOfRequest ==
    {pk \in DOMAIN users :
        /\ users[pk].username = last'.key[1]
        /\ users[pk].email = last'.key[2]}

\* C7 (as stated): a signup with the username "me" is always refused: the
\* response is 400, no mail is sent, and this for every email, also the email
\* of an existing user named "me".
C7_SignupMeRejected ==
    (SignupAnswered /\ last.key[1] = FORBIDDEN_USERNAME)
        => (last.status = 400 /\ last.mail = "none")

\* what a signup for an existing pair does to the data: no user is added, no
\* other user changes, the user's code becomes one generated now, and a mail
\* is attempted
ReissueEffect(pk) ==
    /\ nextUserId' = nextUserId
    /\ users' = [users EXCEPT
                    ![pk].confirmation_code = <<now, pk, users[pk].email>>]
    /\ last'.mail \in {"sent", "failed"}

\* C8 (as stated): a signup whose username and email are those of one
\* existing user succeeds with 200, adds no user, replaces the stored code by
\* a new one and attempts a mail, on every call.
C8_ExistingPairAlwaysSucceeds ==
    [][last'.op = "signup" =>
          \A pk \in PairOfRequest : ReissueEffect(pk) /\ last'.status = 200]_vars

\* C8 (amended): a signup whose username and email are those of one existing
\* user adds no user, replaces the stored code by a new one and attempts a
\* mail, on every call; it answers 200 when the mail is delivered and 500
\* when the delivery fails.
C8_ExistingPairReissues ==
    [][last'.op = "signup" =>
          \A pk \in PairOfRequest :
             /\ ReissueEffect(pk)
             /\ last'.mail = "sent" => last'.status = 200
             /\ last'.mail = "failed" => last'.status = 500]_vars

\* a user made through the admin endpoint (role admin, which signup never
\* gives) has signed up with its own pair and holds a code of this moment
C8_Witness ==
    /\ SignupAnswered
    /\ last.status = 200
    /\ last.mail = "sent"
    /\ \E pk \in DOMAIN users :
          /\ users[pk].username = last.key[1]
          /\ users[pk].email = last.key[2]
          /\ users[pk].role = "admin"
          /\ users[pk].confirmation_code = <<now, pk, users[pk].email>>
          /\ now > 0
          /\ UserByName(last.key[1]) = {pk}

\* the request just answered names the email of a user with another username,
\* or the username of a user with another email (seen before the request)
ConflictOfRequest ==
    \/ \E pk \in DOMAIN users :
          users[pk].email = last'.key[2] /\ users[pk].username # last'.key[1]
    \/ \E pk \in DOMAIN users :
          users[pk].username = last'.key[1] /\ users[pk].email # last'.key[2]

\* C9: a signup whose email belongs to a user with a different username, or
\* whose username belongs to a user with a different email, is refused with
\* 400; no user is created or changed and no mail is sent.
C9_ConflictRejected ==
    [][(last'.op = "signup" /\ ConflictOfRequest) =>
          /\ last'.status = 400
          /\ last'.mail = "none"
          /\ users' = users
          /\ nextUserId' = nextUserId]_vars

\* a well-formed signup with a taken username and a free email was refused
C9_Witness ==
    /\ SignupAnswered
    /\ last.status = 400
    /\ last.detail = "username"
    /\ UsernameRegex(last.key[1])
    /\ validate_username_not_me(last.key[1])
    /\ EmailFormat(last.key[2])
    /\ UserByEmail(last.key[2]) = {}
    /\ \E pk \in UserByName(last.key[1]) : users[pk].email # last.key[2]

\* C10 (as stated): a token request with an existing username and the code
\* currently stored for that user is answered 200 with an access token for
\* that user.
C10_StoredCodeYieldsToken ==
    (last.op = "token") =>
        \A pk \in UserByName(last.key[1]) :
           (users[pk].confirmation_code # Blank
            /\ last.key[2] = users[pk].confirmation_code)
              => (last.status = 200 /\ last.token = AccessToken(pk))

\* the users named by the token request just answered, seen before it
NamedByRequest == UserByName(last'.key[1])

\* a token in the response means the presented code is the stored one
TokenOnlyForStoredCode ==
    (last.op = "token" /\ last.token # None) =>
        \E pk \in UserByName(last.key[1]) :
           /\ users[pk].confirmation_code = last.key[2]
           /\ last.token = AccessToken(pk)

\* a token request whose code is not the one stored for the named user gets
\* no token and a 400, and writes nothing
WrongCodeRejected ==
    (last'.op = "token"
     /\ \E pk \in NamedByRequest : users[pk].confirmation_code # last'.key[2])
        => /\ last'.token = None
           /\ last'.status = 400
           /\ users' = users
           /\ nextUserId' = nextUserId

\* C11: a token request returns an access token only when the presented code
\* equals the code currently stored for the named user; a wrong or superseded
\* code is rejected (400, no token) and the rejection changes no user.
C11_TokenNeedsStoredCode ==
    [] TokenOnlyForStoredCode /\ [][WrongCodeRejected]_vars

\* a code that a later signup replaced was presented and refused
C11_Witness ==
    /\ last.op = "token"
    /\ last.status = 400
    /\ last.token = None
    /\ \E pk \in UserByName(last.key[1]) :
          /\ Len(last.key[2]) = 3
          /\ Len(users[pk].confirmation_code) = 3
          /\ last.key[2][2] = pk
          /\ last.key[2][3] = users[pk].email
          /\ last.key[2][1] < users[pk].confirmation_code[1]

\* what a client sees of a response
Observable(r) == <<r.status, r.detail>>

\* C12 (as stated): a token request with an unknown username and one with a
\* known username and a wrong code get the same response (status and error).
C12_RejectionsIndistinguishable ==
    \A unknown \in UsernameInputs, known \in UsernameInputs, code \in CodeInputs :
       (/\ UserByName(unknown) = {}
        /\ \E pk \in UserByName(known) : users[pk].confirmation_code # code
        /\ code # Blank)
          => Observable(TokenObtainView_post(unknown, code))
                = Observable(TokenObtainView_post(known, code))

PairHoldsFreshCode ==
    \E pk \in DOMAIN users' :
       /\ users'[pk].username = last'.key[1]
       /\ users'[pk].email = last'.key[2]
       /\ users'[pk].confirmation_code = <<now, pk, users'[pk].email>>

\* C19: when the mail of a signup cannot be delivered, the request is answered
\* 500, and the user with the code generated in that request stays stored:
\* the new user on the new-user path, the existing user (and no new one) on
\* the existing-user path.
C19_DeliveryFailureKeepsUser ==
    [][(last'.op = "signup" /\ last'.mail = "failed") =>
          /\ last'.status = 500
          /\ PairHoldsFreshCode
          /\ PairOfRequest # {} => DOMAIN users' = DOMAIN users
          /\ PairOfRequest = {} => DOMAIN users' = DOMAIN users \cup {nextUserId}]_vars

\* a signup whose mail failed was answered 500 and its user holds the code of
\* this moment
C19_Witness ==
    /\ SignupAnswered
    /\ last.mail = "failed"
    /\ last.status = 500
    /\ \E pk \in DOMAIN users :
          /\ users[pk].username = last.key[1]
          /\ users[pk].email = last.key[2]
          /\ users[pk].role = "user"
          /\ users[pk].confirmation_code = <<now, pk, users[pk].email>>

RolesValid == \A pk \in DOMAIN users : users[pk].role \in {"user", "moderator", "admin"}

\* a signup leaves the role of every existing user alone and gives a user it
\* creates the role user
SignupKeepsRoles ==
    last'.op = "signup" =>
       /\ \A pk \in DOMAIN users : users'[pk].role = users[pk].role
       /\ \A pk \in DOMAIN users' \ DOMAIN users : users'[pk].role = "user"

\* C20: a user created by signup has role user, a signup for an existing
\* pair never changes the user's role, and every stored role is one of user,
\* moderator, admin.
C20_SignupRoleUser ==
    [] RolesValid /\ [][SignupKeepsRoles]_vars

\* an admin made through the user endpoint has signed up and is still admin,
\* next to a user made by signup
C20_Witness ==
    /\ SignupAnswered
    /\ \E pk \in DOMAIN users :
          /\ users[pk].username = last.key[1]
          /\ users[pk].email = last.key[2]
          /\ users[pk].role = "admin"
          /\ users[pk].confirmation_code # Blank
    /\ \E pk \in DOMAIN users :
          /\ users[pk].role = "user"
          /\ ~users[pk].is_superuser
          /\ users[pk].confirmation_code # Blank

(***************************************************************************)
(* Properties of the access rules (SpecCatalogAccess).                     *)
(***************************************************************************)
\* the step is a catalog write request (create, update or delete of a
\* category, genre or title) sent by req
CatalogWriteBy(req) ==
    \/ /\ last'.op = "category_post"
       /\ \E n \in CategoryNames : CategoryCreate(req, n, last'.key[1])
    \/ /\ last'.op = "category_delete"
       /\ CategoryDelete(req, last'.key[1])
    \/ /\ last'.op = "genre_post"
       /\ \E n \in GenreNames : GenreCreate(req, n, last'.key[1])
    \/ /\ last'.op = "genre_delete"
       /\ GenreDelete(req, last'.key[1])
    \/ /\ last'.op = "title_post"
       /\ \E n \in TitleNames, y \in YearInputs, c \in CategorySlugs,
             g \in SUBSET GenreSlugs : TitleCreate(req, n, y, c, g)
    \/ /\ last'.op = "title_delete"
       /\ TitleDelete(req, last'.key[1])
    \/ /\ last'.op = "title_patch"
       /\ \E b \in TitlePatchBodies :
             TitlePatch(req, last'.key[1], b.year, b.category, b.genre)

HasRoleAdmin(req) == req # Anonymous /\ users[req].role = "admin"
IsSuperuser(req) == req # Anonymous /\ users[req].is_superuser

\* a catalog read is answered, for every requester (404 for a missing title)
CatalogReadsOpen ==
    /\ last.op \in {"category_list", "genre_list"} => last.status = 200
    /\ last.op = "title_get" =>
          last.status = IF last.key[1] \in DOMAIN titles THEN 200 ELSE 404

\* a catalog write by a requester of R is refused (401 anonymous, 403
\* otherwise) and leaves the catalog as it was: a step that is not such a
\* refusal is not a write request of that requester
CatalogWriteRefused(R) ==
    \A req \in R :
       \/ /\ last'.status = IF req = Anonymous THEN 401 ELSE 403
          /\ UNCHANGED catalogVars
       \/ ~CatalogWriteBy(req)

\* whatever changes the catalog is a write request by a requester of R
CatalogChangedOnlyBy(R) ==
    catalogVars' # catalogVars => \E req \in R : CatalogWriteBy(req)

MayEdit(req, obj, super) ==
    /\ req # Anonymous
    /\ \/ obj.author = req
       \/ users[req].role \in {"moderator", "admin"}
       \/ super /\ users[req].is_superuser

Refusal(req) == IF req = Anonymous THEN 401 ELSE 403

\* the step is a PATCH or DELETE of the review last'.key names, sent by req
ReviewEditBy(req) ==
    \/ /\ last'.op = "review_patch"
       /\ \E sc \in {None, Some(MIN_SCORE)}, tx \in {None, EditedText} :
             ReviewPatch(req, last'.key[1], last'.key[2], sc, tx)
    \/ /\ last'.op = "review_delete"
       /\ ReviewDelete(req, last'.key[1], last'.key[2])

\* the step is a PATCH or DELETE of the comment last'.key names, sent by req
CommentEditBy(req) ==
    \/ /\ last'.op = "comment_patch"
       /\ \E tx \in {None, EditedText} :
             CommentPatch(req, last'.key[1], last'.key[2], last'.key[3], tx)
    \/ /\ last'.op = "comment_delete"
       /\ CommentDelete(req, last'.key[1], last'.key[2], last'.key[3])

\* reads of reviews and comments are never refused
ReviewReadsOpen ==
    last.op \in {"review_get", "review_list", "comment_get", "comment_list"}
        => last.status \in {200, 404}

\* a POST of a review or comment is refused with 401, writing nothing, for an
\* anonymous requester, and is not refused for lack of rights for any other
PostsForAuthenticated ==
    \A req \in ReviewAccessRequesters :
       \/ IF req = Anonymous
          THEN last'.status = 401 /\ UNCHANGED reviewVars
          ELSE last'.status \notin {401, 403}
       \/ ~ \/ /\ last'.op = "review_post"
               /\ \E sc \in ScoreInputs, tx \in TextInputs :
                     ReviewCreate(req, last'.key[1], sc, tx)
            \/ /\ last'.op = "comment_post"
               /\ \E tx \in TextInputs :
                     CommentCreate(req, last'.key[1], last'.key[2], tx)

\* a PATCH or DELETE of an existing review or comment by a requester who may
\* not edit it is refused (401 anonymous, 403 otherwise) and changes nothing:
\* a step that is not such a refusal is not a request of that requester
EditsRefused(super) ==
    \A req \in ReviewAccessRequesters :
       \/ last'.status = Refusal(req) /\ UNCHANGED reviewVars
       \/ /\ ~ /\ last'.op \in {"review_patch", "review_delete"}
               /\ last'.key[2] \in ReviewsOfTitle(reviews, last'.key[1])
               /\ ~MayEdit(req, reviews[last'.key[2]], super)
               /\ ReviewEditBy(req)
          /\ ~ /\ last'.op \in {"comment_patch", "comment_delete"}
               /\ get_review(last'.key[1], last'.key[2])
               /\ last'.key[3] \in CommentsOfReviews(comments, {last'.key[2]})
               /\ ~MayEdit(req, comments[last'.key[3]], super)
               /\ CommentEditBy(req)

\* C15 (as stated): reads of reviews and comments are open to everyone, a
\* create is allowed for exactly the authenticated users, and a PATCH or
\* DELETE by a requester who is not the author, a moderator or an admin (by
\* role) is refused, with 403 or, if anonymous, 401, leaving the object
\* unchanged.
C15_EditsByOwnerModeratorRoleAdmin ==
    /\ [] ReviewReadsOpen
    /\ [][PostsForAuthenticated]_vars
    /\ [][EditsRefused(FALSE)]_vars

\* C15 (amended): the same, with a superuser counted as an admin whatever the
\* role: a PATCH or DELETE by a requester who is not the author, a moderator,
\* an admin or a superuser is refused, with 403 or, if anonymous, 401, leaving
\* the object unchanged.
C15_EditsByOwnerModeratorAdmin ==
    /\ [] ReviewReadsOpen
    /\ [][PostsForAuthenticated]_vars
    /\ [][EditsRefused(TRUE)]_vars

\* Alice's review still stands unedited after a PATCH of it was refused with
\* 403, while Bob's comment has been edited
C15_Witness ==
    /\ last.op = "review_patch"
    /\ last.status = 403
    /\ last.key[2] \in DOMAIN reviews
    /\ reviews[last.key[2]].author = Alice
    /\ reviews[last.key[2]].text = "txt"
    /\ \E c \in DOMAIN comments : comments[c].text = "edited"


(***************************************************************************)
(* C16, C17: the user endpoints                                            *)
(***************************************************************************)
UserEndpointOps == {"user_list", "user_get", "user_patch", "user_delete"}

\* the requester may manage users: role admin, and with `super` a superuser
MayManage(req, super) ==
    /\ req # Anonymous
    /\ \/ users[req].role = "admin"
       \/ super /\ users[req].is_superuser

\* the step is a POST /users/ sent by req
UserCreateBy(req) ==
    \E r \in RoleInputs : UserCreate(req, last'.key[1], last'.key[2], r)

\* a request to /users/ or /users/{username}/ by a requester who may not
\* manage users is refused (401 anonymous, 403 authenticated) and changes no
\* user; one by a requester who may is not refused
UserEndpointsGuarded(super) ==
    /\ last'.op \in UserEndpointOps =>
          LET req == last'.key[1]
          IN IF MayManage(req, super)
             THEN last'.status \notin {401, 403}
             ELSE last'.status = Refusal(req) /\ users' = users
    /\ last'.op = "user_post" =>
          \A req \in LiveRequesters :
             \/ IF MayManage(req, super)
                THEN last'.status \notin {401, 403}
                ELSE last'.status = Refusal(req) /\ users' = users
             \/ ~UserCreateBy(req)

\* /users/me/ answers every authenticated requester, whatever the role: GET
\* with 200, PATCH with 200 and the sent bio stored on the requester's row
OwnProfileOpen ==
    /\ last'.op \in {"me_get", "me_patch"} /\ last'.key[1] # Anonymous =>
          last'.status = 200
    /\ last'.op = "me_patch" /\ last'.key[1] # Anonymous =>
          /\ users'[last'.key[1]].bio = NewBio[1]
          /\ \A pk \in DOMAIN users \ {last'.key[1]} :
                pk \in DOMAIN users' /\ users'[pk] = users[pk]

\* C16 as stated: listing, retrieving, creating, patching and deleting users
\* through /users/ and /users/{username}/ is carried out only for an
\* authenticated requester whose role is admin; any other requester is
\* refused and no user is changed; every authenticated user can read and
\* PATCH the own profile through /users/me/
C16_OnlyRoleAdminManagesUsers ==
    [][UserEndpointsGuarded(FALSE) /\ OwnProfileOpen]_vars

\* C16 amended: ... only for an authenticated admin or superuser; any other
\* requester is refused and no user is changed; every authenticated user can
\* read and PATCH the own profile through /users/me/
C16_OnlyAdminsManageUsers ==
    [][UserEndpointsGuarded(TRUE) /\ OwnProfileOpen]_vars

\* an admin has deleted an existing user, and a plain user has then patched
\* the own profile
C16_Witness ==
    /\ last.op = "me_patch" /\ last.key[1] = Alice /\ last.status = 200
    /\ users[Alice].bio = NewBio[1]
    /\ UserByName("bob") = {}
    /\ Moderator \in DOMAIN users

\* C17: no request made by a user changes that same user's role
C17_OwnRoleUnchanged ==
    [][last'.op \in UserEndpointOps \cup {"me_get", "me_patch"} =>
          LET req == last'.key[1]
          IN req # Anonymous /\ req \in DOMAIN users' =>
                users'[req].role = users[req].role]_vars

(***************************************************************************)
(* C18: a review change and the recomputation commit or fail together      *)
(***************************************************************************)
\* the step is a review create, update or delete whose recomputation, if it
\* is reached, fails
RecomputationFails ==
    \/ /\ last'.op = "draft_review_post"
       /\ \E req \in {Alice, Moderator}, s \in DraftScores :
             DraftReviewCreate(req, last'.key[1], s, TRUE)
    \/ /\ last'.op = "draft_review_patch"
       /\ \E s \in DraftScores : DraftReviewUpdate(last'.key[1], s, TRUE)
    \/ /\ last'.op = "draft_review_delete"
       /\ DraftReviewDestroy(last'.key[1], TRUE)

SlugsKept(rows, rowsAfter) ==
    \A x \in rows :
       (\E y \in rowsAfter : y.name = x.name) => x \in rowsAfter

SlugsUnique(rows) ==
    \A x, y \in rows : x.slug = y.slug => x = y

\* C21: no API operation changes the slug of an existing Category or Genre
\* (a PATCH is not among the operations and changes nothing), so a Category
\* or Genre, referenced by a Title or not, keeps its slug for as long as it
\* exists; slugs stay unique among Categories and among Genres
C21_SlugsImmutable ==
    /\ [](SlugsUnique(categories) /\ SlugsUnique(genres))
    /\ [][/\ SlugsKept(categories, categories')
          /\ SlugsKept(genres, genres')
          /\ last'.op \in {"category_patch", "genre_patch"} =>
                /\ last'.status \in {401, 405}
                /\ UNCHANGED <<categories, genres, titles>>]_vars

\* an admin's PATCH of the slug of a category that a title references was
\* answered 405, and the category and the reference are as they were
C21_Witness ==
    /\ last.op = "category_patch" /\ last.key = <<"films", "books">>
    /\ last.status = 405
    /\ [name |-> "Films", slug |-> "films"] \in categories
    /\ \E t \in DOMAIN titles : titles[t].category = Some("films")

(***************************************************************************)
(* C22: what a PATCH of a review leaves alone                              *)
(***************************************************************************)
\* no two reviews of one author on one title
OneReviewPerPair ==
    \A r1, r2 \in DOMAIN reviews :
       reviews[r1].title = reviews[r2].title
       /\ reviews[r1].author = reviews[r2].author => r1 = r2

\* C22: a PATCH of a Review changes only its text and/or score; pub_date,
\* title and author of a review are the values set at creation for as long
\* as it exists, so no PATCH moves a review onto a (title, author) pair that
\* already has one
C22_PatchKeepsTitleAuthorDate ==
    /\ []OneReviewPerPair
    /\ [][\A r \in DOMAIN reviews \cap DOMAIN reviews' :
             /\ reviews'[r].title = reviews[r].title
             /\ reviews'[r].author = reviews[r].author
             /\ reviews'[r].pub_date = reviews[r].pub_date]_vars

\* a PATCH naming score, title, author and pub_date was accepted for Alice's
\* review of title 1 posted at time 0, while Bob has a review of title 2:
\* the score is the new one and nothing else moved
C22_Witness ==
    /\ last.op = "review_patch" /\ last.status = 200 /\ last.key = <<1, 1>>
    /\ now = 1
    /\ 1 \in DOMAIN reviews
    /\ reviews[1] = [title |-> 1, author |-> Alice, score |-> 5,
                     text |-> "txt", pub_date |-> 0]
    /\ \E r \in DOMAIN reviews :
          reviews[r].title = 2 /\ reviews[r].author = Bob

SuperusersBelowAdmin ==
    {pk \in DOMAIN users : users[pk].is_superuser /\ users[pk].role # "admin"}

\* C24: a superuser with role user or moderator is allowed every operation an
\* admin is allowed: no catalog write, user-management request or edit of
\* somebody else's review or comment sent by such a user is refused (403)
C24_SuperuserIsAdmin ==
    [][\A req \in SuperusersBelowAdmin :
          \/ last'.status \notin {401, 403}
          \/ ~SuperRequest(req)]_vars

\* the superuser, with role moderator, has deleted a category after deleting
\* the user bob and editing alice's review
C24_Witness ==
    /\ last.op = "category_delete" /\ last.status = 204
    /\ users[Super].is_superuser /\ users[Super].role = "moderator"
    /\ UserByName("bob") = {}
    /\ 1 \in DOMAIN reviews /\ reviews[1].author = Alice
    /\ reviews[1].text = "edited"

(***************************************************************************)
(* C25: deleting a user                                                    *)
(***************************************************************************)
\* every review and comment has its author, every comment its review
AuthorsAndParentsExist ==
    /\ \A r \in DOMAIN reviews : reviews[r].author \in DOMAIN users
    /\ \A c \in DOMAIN comments :
          /\ comments[c].author \in DOMAIN users
          /\ comments[c].review \in DOMAIN reviews

\* a deletion of a user that was carried out removes the reviews and the
\* comments of that user and the comments on those reviews, and nothing else
UserDeleteCascades ==
    last'.op = "user_delete" /\ last'.status = 204 =>
        LET pk == CHOOSE k \in DOMAIN users : k \notin DOMAIN users'
            left == {r \in DOMAIN reviews : reviews[r].author # pk}
        IN /\ DOMAIN users' = DOMAIN users \ {pk}
           /\ reviews' = Restrict(reviews, left)
           /\ comments' = Restrict(comments,
                 {c \in DOMAIN comments :
                     comments[c].author # pk /\ comments[c].review \in left})

\* a user of the initial state has been deleted
SomeUserDeleted == DOMAIN users # DOMAIN Accounts

ReviewOps == {"review_post", "review_patch", "review_delete", "review_get",
              "review_list"}
CommentOps == {"comment_post", "comment_patch", "comment_delete",
               "comment_get", "comment_list"}
NestWriteOps == {"review_post", "review_patch", "review_delete",
                 "comment_post", "comment_patch", "comment_delete"}

\* the rows of a table that the step added, removed or changed
Touched(rows, rowsAfter) ==
    {x \in DOMAIN rows \cup DOMAIN rowsAfter :
        \/ x \notin DOMAIN rows
        \/ x \notin DOMAIN rowsAfter
        \/ rows[x] # rowsAfter[x]}

RowOf(rows, rowsAfter, x) ==
    IF x \in DOMAIN rows THEN rows[x] ELSE rowsAfter[x]

\* a review request under title T touches reviews of T only, and comments
\* only on such reviews; a comment request under (T, R) touches comments of
\* R only, only when R is a review of T, and no review
ConfinedToParents ==
    /\ last'.op \in ReviewOps =>
          /\ \A r \in Touched(reviews, reviews') :
                RowOf(reviews, reviews', r).title = last'.key[1]
          /\ \A c \in Touched(comments, comments') :
                /\ comments[c].review \in DOMAIN reviews
                /\ reviews[comments[c].review].title = last'.key[1]
    /\ last'.op \in CommentOps =>
          /\ reviews' = reviews
          /\ \A c \in Touched(comments, comments') :
                /\ RowOf(comments, comments', c).review = last'.key[2]
                /\ last'.key[2] \in DOMAIN reviews
                /\ reviews[last'.key[2]].title = last'.key[1]

\* the request of the step names a missing title, a missing review or a
\* review of another title
ParentMissing ==
    \/ /\ last'.op \in ReviewOps
       /\ \/ last'.key[1] \notin DOMAIN titles
          \/ /\ Len(last'.key) = 2
             /\ last'.key[2] \notin ReviewsOfTitle(reviews, last'.key[1])
    \/ /\ last'.op \in CommentOps
       /\ \/ last'.key[1] \notin DOMAIN titles
          \/ last'.key[2] \notin ReviewsOfTitle(reviews, last'.key[1])

\* the step is a write request of an anonymous requester
AnonymousWrite ==
    /\ last'.op \in NestWriteOps
    /\ NestRequest(Anonymous)

\* the step is a POST of a review whose score is out of range
PostWithBadScore ==
    /\ last'.op = "review_post"
    /\ \E req \in NestRequesters, s \in {x \in NestScores : ~ScoreField(x)} :
          ReviewCreate(req, last'.key[1], s, "txt")

====
